---- MODULE Spec2Model ----
(***************************************************************************)
(* Model of task-assistant-core / orchestrator-core: the configuration     *)
(* loader (config.ts), the track classifier (issueClassifier.ts), the      *)
(* milestone resolver (milestoneRules.ts), the milestone manager           *)
(* (milestoneManager.ts) and the run() entry point (index.ts).             *)
(*                                                                         *)
(* JavaScript values are records tagged with their type, objects are       *)
(* sequences of key/value entries in insertion order, and a property read  *)
(* of a missing key yields Undefined, as in the language.                  *)
(***************************************************************************)
EXTENDS Integers, Sequences, FiniteSets, TLC

VARIABLES
    doc,            \* the repository's configuration document (the file read)
    envTelemetry,   \* env.ORCHESTRATOR_TELEMETRY_ENABLED
    event,          \* event[r]: ctx.payload.issue of run r
    run,            \* run[r]: the locals of run r and what it has emitted
    milestones,     \* remote store: the repository's open milestones
    labelsAdded,    \* remote store: labels added to each issue by addLabels
    attached,       \* remote store: milestone number attached to each issue
    fnIn,           \* a pure function applied on its own: its arguments
    fnOut           \* a pure function applied on its own: what it returned

vars == <<doc, envTelemetry, event, run, milestones, labelsAdded, attached,
          fnIn, fnOut>>

-----------------------------------------------------------------------------
(* Bounds *)

\* pre-existing open milestones of the repository
MaxOpenMilestones == 1
\* labels carried by an issue in the orchestration runs
MaxLabels == 1
\* labels given to the classifier when it is checked on its own
MaxClassifyLabels == 2
\* tracks declared in a configuration when the classifier is checked on its own
MaxTracks == 2

Runs == {1, 2}

-----------------------------------------------------------------------------
(* JavaScript values *)

Undefined == [t |-> "undefined"]
Null == [t |-> "null"]
Bool(b) == [t |-> "boolean", b |-> b]
Str(s) == [t |-> "string", s |-> s]
Num(n) == [t |-> "number", n |-> n]
Arr(a) == [t |-> "array", a |-> a]
Obj(e) == [t |-> "object", e |-> e]
Entry(k, v) == [k |-> k, v |-> v]
EmptyObject == Obj(<<>>)

\* ToBoolean
Truthy(v) ==
    CASE v.t = "undefined" -> FALSE
      [] v.t = "null" -> FALSE
      [] v.t = "boolean" -> v.b
      [] v.t = "string" -> v.s # ""
      [] v.t = "number" -> v.n # 0
      [] OTHER -> TRUE

\* x == null, and the left operand test of x ?? y
Nullish(v) == v.t \in {"undefined", "null"}

\* typeof
TypeOf(v) == IF v.t \in {"null", "array"} THEN "object" ELSE v.t

\* x ?? y
Coalesce(v, d) == IF Nullish(v) THEN d ELSE v

\* x || y
OrElse(v, d) == IF Truthy(v) THEN v ELSE d

\* o.k (o neither null nor undefined): the own property, or undefined
Get(o, k) ==
    IF o.t = "object" /\ \E i \in 1..Len(o.e) : o.e[i].k = k
    THEN o.e[CHOOSE i \in 1..Len(o.e) : o.e[i].k = k].v
    ELSE Undefined

\* o[k] = v: an existing key keeps its place, a new key is appended
Put(o, k, v) ==
    IF \E i \in 1..Len(o.e) : o.e[i].k = k
    THEN Obj([i \in 1..Len(o.e) |->
                 IF o.e[i].k = k THEN Entry(k, v) ELSE o.e[i]])
    ELSE Obj(Append(o.e, Entry(k, v)))

\* Property keys that are canonical array indices, with their numeric value
IndexKeys == ("3" :> 3) @@ ("7" :> 7)
IsIndexKey(k) == k \in DOMAIN IndexKeys

RECURSIVE SortedIndexEntries(_, _)
SortedIndexEntries(e, todo) ==
    IF todo = {} THEN <<>>
    ELSE LET i == CHOOSE x \in todo :
                      \A y \in todo : IndexKeys[e[x].k] <= IndexKeys[e[y].k]
         IN  <<e[i]>> \o SortedIndexEntries(e, todo \ {i})

RECURSIVE FilterEntries(_, _)
FilterEntries(e, index) ==
    IF e = <<>> THEN <<>>
    ELSE (IF IsIndexKey(Head(e).k) = index THEN <<Head(e)>> ELSE <<>>)
         \o FilterEntries(Tail(e), index)

\* Object.entries: integer-index keys first, in ascending numeric order, then
\* the string keys in insertion order (OrdinaryOwnPropertyKeys)
ObjectEntries(o) ==
    LET idx == FilterEntries(o.e, TRUE)
    IN  SortedIndexEntries(idx, 1..Len(idx)) \o FilterEntries(o.e, FALSE)

-----------------------------------------------------------------------------
(* Text: the strings whose characters the program looks at *)

\* key.split("-") of every key a configuration document may carry
HyphenParts ==
    ("tracks" :> <<"tracks">>) @@ ("telemetry" :> <<"telemetry">>) @@
    ("milestone_rules" :> <<"milestone_rules">>) @@
    ("milestoneRules" :> <<"milestoneRules">>) @@
    ("milestone-rules" :> <<"milestone", "rules">>) @@
    ("milestones" :> <<"milestones">>) @@
    ("self_healing" :> <<"self_healing">>) @@
    ("selfHealing" :> <<"selfHealing">>) @@
    ("self-healing" :> <<"self", "healing">>) @@
    ("owner" :> <<"owner">>)

\* the characters of every label and pattern
CharsOf ==
    ("" :> <<>>) @@
    ("Bug" :> <<"B", "u", "g">>) @@
    ("bug" :> <<"b", "u", "g">>) @@
    ("BUG" :> <<"B", "U", "G">>) @@
    ("ug" :> <<"u", "g">>) @@
    ("docs" :> <<"d", "o", "c", "s">>) @@
    ("doc" :> <<"d", "o", "c">>) @@
    ("Doc" :> <<"D", "o", "c">>) @@
    ("track:bug" :> <<"t", "r", "a", "c", "k", ":", "b", "u", "g">>) @@
    ("trace" :> <<"t", "r", "a", "c", "e">>) @@
    ("track:debug" :>
        <<"t", "r", "a", "c", "k", ":", "d", "e", "b", "u", "g">>)

\* String.prototype.toLowerCase on one character
LowerChar(c) ==
    CASE c = "B" -> "b"
      [] c = "U" -> "u"
      [] c = "G" -> "g"
      [] c = "D" -> "d"
      [] OTHER -> c

toLowerCase(cs) == [i \in 1..Len(cs) |-> LowerChar(cs[i])]

\* String.prototype.includes
includes(cs, sub) ==
    \E i \in 0..(Len(cs) - Len(sub)) : SubSeq(cs, i + 1, i + Len(sub)) = sub

RECURSIVE Join(_, _)
Join(parts, sep) ==
    IF Len(parts) = 0 THEN ""
    ELSE IF Len(parts) = 1 THEN parts[1]
    ELSE parts[1] \o sep \o Join(Tail(parts), sep)

-----------------------------------------------------------------------------
(* config.ts *)

KNOWN_KEYS == {"tracks", "milestone_rules", "self_healing", "telemetry"}

\* key.replace(/-/g, "_")
normalizeKey(key) == Join(HyphenParts[key], "_")

\* the keys warnUnknownKeys warns about
warnUnknownKeys(d) ==
    {d.e[i].k : i \in {j \in 1..Len(d.e) : normalizeKey(d.e[j].k) \notin KNOWN_KEYS}}

IsStringArray(v) ==
    v.t = "array" /\ \A i \in 1..Len(v.a) : TypeOf(v.a[i]) = "string"

RECURSIVE KeepEntries(_, _)
\* out = {}; for each entry in order: out[k] = v unless the entry is invalid
KeepEntries(entries, valueType) ==
    IF entries = <<>> THEN EmptyObject
    ELSE LET last == entries[Len(entries)]
             out == KeepEntries(SubSeq(entries, 1, Len(entries) - 1), valueType)
             valid == IF valueType = "string[]" THEN IsStringArray(last.v)
                      ELSE TypeOf(last.v) = "string"
         IN  IF valid THEN Put(out, last.k, last.v) ELSE out

validateTracks(tracks) ==
    IF Nullish(tracks) THEN Undefined
    ELSE IF TypeOf(tracks) # "object" \/ tracks.t = "array" THEN Undefined
    ELSE KeepEntries(ObjectEntries(tracks), "string[]")

validateMilestoneRules(m) ==
    IF Nullish(m) THEN Undefined
    ELSE IF TypeOf(m) # "object" \/ m.t = "array" THEN Undefined
    ELSE KeepEntries(ObjectEntries(m), "string")

validateSelfHealing(s) ==
    IF ~Truthy(s) THEN EmptyObject
    ELSE LET enabled == IF TypeOf(Get(s, "enabled")) # "boolean"
                        THEN Bool(FALSE) ELSE Get(s, "enabled")
             fmt == Get(s, "fix_missing_track")
             fmm == Get(s, "fix_missing_milestone")
             o1 == Put(EmptyObject, "enabled", enabled)
             o2 == IF ~Nullish(fmt) /\ TypeOf(fmt) # "boolean" THEN o1
                   ELSE Put(o1, "fixMissingTrack", Coalesce(fmt, Bool(FALSE)))
             o3 == IF ~Nullish(fmm) /\ TypeOf(fmm) # "boolean" THEN o2
                   ELSE Put(o2, "fixMissingMilestone", Coalesce(fmm, Bool(FALSE)))
         IN  o3

validateTelemetry(t) ==
    IF ~Truthy(t)
    THEN Obj(<<Entry("enabled", Bool(TRUE)), Entry("path", Str("telemetry"))>>)
    ELSE LET enabled == IF TypeOf(Get(t, "enabled")) # "boolean"
                        THEN Bool(TRUE) ELSE Get(t, "enabled")
             path == IF Truthy(Get(t, "path")) /\ TypeOf(Get(t, "path")) # "string"
                     THEN Str("telemetry")
                     ELSE OrElse(Get(t, "path"), Str("telemetry"))
         IN  Obj(<<Entry("enabled", enabled), Entry("path", path)>>)

RECURSIVE NormalizeKeys(_)
\* normalized = {}; for each entry in order: normalized[normalizeKey(key)] = value
NormalizeKeys(entries) ==
    IF entries = <<>> THEN EmptyObject
    ELSE LET last == entries[Len(entries)]
         IN  Put(NormalizeKeys(SubSeq(entries, 1, Len(entries) - 1)),
                 normalizeKey(last.k), last.v)

\* d.kind: "missing" (no file), "unparseable" (yaml.load throws, caught),
\* "parsed" (d.v is the loaded document)
loadConfig(d) ==
    IF d.kind = "missing" THEN EmptyObject
    ELSE IF d.kind = "unparseable" THEN EmptyObject
    ELSE IF ~Truthy(d.v) \/ TypeOf(d.v) # "object" THEN EmptyObject
    ELSE LET normalized == NormalizeKeys(ObjectEntries(d.v))
         IN  Obj(<<Entry("tracks", validateTracks(Get(normalized, "tracks"))),
                   Entry("milestone_rules",
                         validateMilestoneRules(Get(normalized, "milestone_rules"))),
                   Entry("selfHealing",
                         validateSelfHealing(Get(normalized, "self_healing"))),
                   Entry("telemetry",
                         validateTelemetry(Get(normalized, "telemetry")))>>)

-----------------------------------------------------------------------------
(* issueClassifier.ts *)

\* patterns.some(pattern => normalizedLabels.some(label =>
\*     label.includes(pattern.toLowerCase())))
PatternsMatch(patterns, normalizedLabels) ==
    \E i \in 1..Len(patterns.a) : \E j \in 1..Len(normalizedLabels) :
        includes(normalizedLabels[j], toLowerCase(CharsOf[patterns.a[i].s]))

\* the for loop: the first entry whose patterns match, else null
DetectTrack(entries, normalizedLabels) ==
    LET hits == {i \in 1..Len(entries) :
                    PatternsMatch(entries[i].v, normalizedLabels)}
    IN  IF hits = {} THEN Null
        ELSE Str(entries[CHOOSE i \in hits : \A j \in hits : i <= j].k)

\* mutant: the match is tested with detectedTrack !== undefined, which the
\* initial null passes
classifyIssue_NullPasses(cfg, labels) ==
    LET tracks == Coalesce(Get(cfg, "tracks"), EmptyObject)
        normalizedLabels == [i \in 1..Len(labels) |-> toLowerCase(CharsOf[labels[i]])]
        detectedTrack == DetectTrack(ObjectEntries(tracks), normalizedLabels)
    IN  [track |-> detectedTrack,
         trackLabelToApply |->
             Str("track:" \o (IF detectedTrack = Null THEN "null"
                              ELSE detectedTrack.s)),
         violations |-> <<>>,
         actions |-> <<>>]

\* labels: a sequence of label names
classifyIssue(cfg, labels) ==
    LET tracks == Coalesce(Get(cfg, "tracks"), EmptyObject)
        normalizedLabels == [i \in 1..Len(labels) |-> toLowerCase(CharsOf[labels[i]])]
        detectedTrack == DetectTrack(ObjectEntries(tracks), normalizedLabels)
    IN  IF Truthy(detectedTrack)
        THEN [track |-> detectedTrack,
              trackLabelToApply |-> Str("track:" \o detectedTrack.s),
              violations |-> <<>>,
              actions |-> <<>>]
        ELSE [track |-> Null,
              trackLabelToApply |-> Null,
              violations |-> <<"no-track-matched">>,
              actions |-> <<>>]

-----------------------------------------------------------------------------
(* milestoneRules.ts *)

inferMilestoneTitle(cfg, track) ==
    IF ~Truthy(track) THEN Null
    ELSE LET milestoneRules == Coalesce(Get(cfg, "milestones"), EmptyObject)
             rule == Get(milestoneRules, track.s)
         IN  IF ~Truthy(rule) THEN Null ELSE Get(rule, "title")

-----------------------------------------------------------------------------
(* milestoneManager.ts *)

\* mutant: the loop finds no milestone, whatever the list holds
findMilestoneByTitle_NeverMatches(data, title) == Null

\* the for loop of findMilestoneByTitle over the listed milestones
findMilestoneByTitle(data, title) ==
    LET hits == {i \in 1..Len(data) : data[i].title = title}
    IN  IF hits = {} THEN Null
        ELSE Num(data[CHOOSE i \in hits : \A j \in hits : i <= j].number)

\* the severity githubApiError gives the errors of the milestone calls
githubApiError == "github-api"

-----------------------------------------------------------------------------
(* index.ts: run(), cut at its awaits.  A run's locals and what it has     *)
(* emitted are one record; each operator below is the code between two     *)
(* awaits, from the run record before to the run record after.             *)

\* x?.k
OptGet(o, k) == IF Nullish(o) THEN Undefined ELSE Get(o, k)

\* the call is issued and the run suspends on it
IssueCall(s, op, arg) ==
    [s EXCEPT !.calls = Append(@, [op |-> op, arg |-> arg, state |-> "pending",
                                   res |-> Undefined]),
              !.pc = op]

\* the awaited call settles: "ok" with what it resolved to, or "rejected"
Settle(s, state, res) ==
    [s EXCEPT !.calls[Len(s.calls)].state = state,
              !.calls[Len(s.calls)].res = res]

\* config.selfHealing ?? {enabled: false, ...}
SelfHealingOf(cfg) ==
    Coalesce(Get(cfg, "selfHealing"),
             Obj(<<Entry("enabled", Bool(FALSE)),
                   Entry("fixMissingTrack", Bool(FALSE)),
                   Entry("fixMissingMilestone", Bool(FALSE))>>))

\* (issue.labels || []).map(l => typeof l === "string" ? l : l.name)
LabelNames(issue) ==
    LET ls == OrElse(Get(issue, "labels"), Arr(<<>>)).a
    IN  [i \in 1..Len(ls) |->
            IF TypeOf(ls[i]) = "string" THEN ls[i].s ELSE Get(ls[i], "name").s]

\* what writeTelemetry may report: a file written, or no file written
WriteOutcomes == {"written", "nothing"}

\* the path writeTelemetry returns for a written file
WrittenPath(cfg, number) ==
    Str("telemetry/issue-" \o ToString(number) \o ".json")

\* (config.telemetry?.enabled ?? true) && env.ORCHESTRATOR_TELEMETRY_ENABLED
TelemetryEnabled(cfg, env) ==
    Truthy(Coalesce(OptGet(Get(cfg, "telemetry"), "enabled"), Bool(TRUE))) /\ env

\* mutant: a write that reports no file fails the run
Telemetry_WriteEscalates(s, issue, env, w) ==
    LET telemetryEnabled == TelemetryEnabled(s.config, env)
        number == Get(issue, "number").n
        payload == [version |-> 1,
                    event |-> "issue_event",
                    issue |-> [number |-> number,
                               labels |-> LabelNames(issue),
                               milestone |-> s.finalMilestoneTitle],
                    classification |-> s.classification,
                    actions |-> s.classification.actions]
    IN  IF telemetryEnabled /\ w = "nothing"
        THEN [s EXCEPT !.telemetry = Append(@, [number |-> number,
                                                payload |-> payload,
                                                written |-> FALSE]),
                       !.status = "failed",
                       !.error = "fatal",
                       !.pc = "done"]
        ELSE [s EXCEPT !.telemetry = IF telemetryEnabled
                                     THEN Append(@, [number |-> number,
                                                     payload |-> payload,
                                                     written |-> TRUE])
                                     ELSE @,
                       !.result = [track |-> s.classification.track,
                                   actions |-> s.classification.actions,
                                   milestone |-> s.finalMilestoneTitle,
                                   telemetryFile |->
                                       IF telemetryEnabled
                                       THEN WrittenPath(s.config, number)
                                       ELSE Null],
                       !.status = "success",
                       !.pc = "done"]

\* 3. Telemetry and 4. the result
Telemetry(s, issue, env, w) ==
    LET telemetryEnabled == TelemetryEnabled(s.config, env)
        number == Get(issue, "number").n
        payload == [version |-> 1,
                    event |-> "issue_event",
                    issue |-> [number |-> number,
                               labels |-> LabelNames(issue),
                               milestone |-> s.finalMilestoneTitle],
                    classification |-> s.classification,
                    actions |-> s.classification.actions]
        telemetryFile == IF telemetryEnabled /\ w = "written"
                         THEN WrittenPath(s.config, number) ELSE Null
    IN  [s EXCEPT !.telemetry = IF telemetryEnabled
                                THEN Append(@, [number |-> number,
                                                payload |-> payload,
                                                written |-> (w = "written")])
                                ELSE @,
                  !.result = [track |-> s.classification.track,
                              actions |-> s.classification.actions,
                              milestone |-> s.finalMilestoneTitle,
                              telemetryFile |-> telemetryFile],
                  !.status = "success",
                  !.pc = "done"]

\* selfHealing.enabled && selfHealing.fixMissingMilestone
MilestoneRepairOn(selfHealing) ==
    Truthy(Get(selfHealing, "enabled"))
    /\ Truthy(Get(selfHealing, "fixMissingMilestone"))

\* mutant: the desired title is not compared with the issue's current one
MilestoneEnforcement_NoCompare(s, issue, env, w) ==
    LET final == Coalesce(OptGet(Get(issue, "milestone"), "title"), Null)
        desired == inferMilestoneTitle(s.config, s.classification.track)
        s1 == [s EXCEPT !.finalMilestoneTitle = final]
    IN  IF MilestoneRepairOn(SelfHealingOf(s.config)) /\ Truthy(desired)
        THEN IssueCall([s1 EXCEPT !.desiredMilestoneTitle = desired],
                       "listMilestones", desired)
        ELSE Telemetry(s1, issue, env, w)

\* 2b. Milestone enforcement, up to the lookup ensureMilestone starts with
MilestoneEnforcement(s, issue, env, w) ==
    LET final == Coalesce(OptGet(Get(issue, "milestone"), "title"), Null)
        desired == inferMilestoneTitle(s.config, s.classification.track)
        s1 == [s EXCEPT !.finalMilestoneTitle = final]
    IN  IF MilestoneRepairOn(SelfHealingOf(s.config))
           /\ Truthy(desired) /\ desired # final
        THEN IssueCall([s1 EXCEPT !.desiredMilestoneTitle = desired],
                       "listMilestones", desired)
        ELSE Telemetry(s1, issue, env, w)

\* mutant: the sub-flag alone decides, the parent flag is not consulted
TrackRepairOn_IgnoresEnabled(selfHealing, cls) ==
    Truthy(Get(selfHealing, "fixMissingTrack"))
    /\ Truthy(cls.trackLabelToApply)

\* selfHealing.enabled && selfHealing.fixMissingTrack &&
\* classification.trackLabelToApply
TrackRepairOn(selfHealing, cls) ==
    Truthy(Get(selfHealing, "enabled"))
    /\ Truthy(Get(selfHealing, "fixMissingTrack"))
    /\ Truthy(cls.trackLabelToApply)

\* 1. Classify and 2a. Fix missing track label, up to the addLabels call
Orchestrate(s, issue, env, w) ==
    LET cls == classifyIssue(s.config, LabelNames(issue))
        s1 == [s EXCEPT !.classification = cls]
    IN  IF TrackRepairOn(SelfHealingOf(s.config), cls)
        THEN IssueCall(s1, "addLabels", cls.trackLabelToApply)
        ELSE MilestoneEnforcement(s1, issue, env, w)

\* run() from the loaded config on
RunFrom(s, cfg, issue, env, w) ==
    LET s0 == [s EXCEPT !.config = cfg]
    IN  IF ~Truthy(issue)
        THEN [s0 EXCEPT !.status = "noissue", !.pc = "done"]
        ELSE Orchestrate(s0, issue, env, w)

\* addLabels resolved: record the action, go on with 2b
AfterAddLabels(s, issue, env, w) ==
    LET s1 == [Settle(s, "ok", Undefined) EXCEPT
                  !.classification.actions =
                      Append(@, "apply-track-label:"
                                \o s.classification.trackLabelToApply.s)]
    IN  MilestoneEnforcement(s1, issue, env, w)

\* the attach call of attachMilestoneToIssue
Attach(s, issue, number) ==
    IssueCall([s EXCEPT !.milestoneNumber = number], "update",
              [issue_number |-> Get(issue, "number"), milestone |-> number])

\* mutant: the create is not awaited, the attach goes out beside it
AfterListMilestones_NoAwait(s, issue, data) ==
    LET existing == findMilestoneByTitle(data, s.desiredMilestoneTitle.s)
        s1 == Settle(s, "ok", Arr(data))
    IN  IF existing # Null
        THEN Attach(s1, issue, existing)
        ELSE Attach(IssueCall(s1, "createMilestone", s.desiredMilestoneTitle),
                    issue, Undefined)

\* mutant: a title the lookup does not find is attached without being created
AfterListMilestones_NoCreate(s, issue, data) ==
    Attach(Settle(s, "ok", Arr(data)), issue,
           findMilestoneByTitle(data, s.desiredMilestoneTitle.s))

\* listMilestones resolved with data: the rest of ensureMilestone
AfterListMilestones(s, issue, data) ==
    LET existing == findMilestoneByTitle(data, s.desiredMilestoneTitle.s)
        s1 == Settle(s, "ok", Arr(data))
    IN  IF existing # Null
        THEN Attach(s1, issue, existing)
        ELSE IssueCall(s1, "createMilestone", s.desiredMilestoneTitle)

\* createMilestone resolved with res.data.number
AfterCreateMilestone(s, issue, number) ==
    Attach(Settle(s, "ok", Num(number)), issue, Num(number))

\* mutant: the action is recorded but the final title is left as it was
AfterAttach_KeepsTitle(s, issue, env, w) ==
    LET s1 == [Settle(s, "ok", Undefined) EXCEPT
                  !.classification.actions =
                      Append(@, "set-milestone:" \o s.desiredMilestoneTitle.s)]
    IN  Telemetry(s1, issue, env, w)

\* mutant: the set-milestone action is put at the head of the list
AfterAttach_Prepends(s, issue, env, w) ==
    LET s1 == [Settle(s, "ok", Undefined) EXCEPT
                  !.finalMilestoneTitle = s.desiredMilestoneTitle,
                  !.classification.actions =
                      <<"set-milestone:" \o s.desiredMilestoneTitle.s>> \o @]
    IN  Telemetry(s1, issue, env, w)

\* the attach resolved: the title is final, the action recorded
AfterAttach(s, issue, env, w) ==
    LET s1 == [Settle(s, "ok", Undefined) EXCEPT
                  !.finalMilestoneTitle = s.desiredMilestoneTitle,
                  !.classification.actions =
                      Append(@, "set-milestone:" \o s.desiredMilestoneTitle.s)]
    IN  Telemetry(s1, issue, env, w)

\* mutant: the rejected call is issued once more instead of ending the run
Caught_Retries(s, severity) ==
    LET last == s.calls[Len(s.calls)]
    IN  IssueCall(Settle(s, "rejected", Undefined), last.op, last.arg)

\* an awaited call rejected: the catch block of run()
Caught(s, severity) ==
    [Settle(s, "rejected", Undefined) EXCEPT !.status = "failed",
                                  !.error = severity,
                                  !.pc = "done"]

\* the severity of the error a failed addLabels raises
addLabelsError == "github-api"

-----------------------------------------------------------------------------
(* Inputs *)

SeqsUpTo(S, n) == UNION {[1..k -> S] : k \in 0..n}

True == Bool(TRUE)
False == Bool(FALSE)

\* an array of pattern strings
Patterns(ps) == Arr([i \in 1..Len(ps) |-> Str(ps[i])])

\* a self-healing section as the configuration document spells it
Flags(e, t, m) ==
    Obj(<<Entry("enabled", e), Entry("fix_missing_track", t),
          Entry("fix_missing_milestone", m)>>)

TracksSections ==
    {<<>>,
     <<Entry("tracks", Obj(<<Entry("bug", Patterns(<<"bug">>))>>))>>,
     <<Entry("tracks", Obj(<<Entry("bug", Patterns(<<"bug">>)),
                             Entry("docs", Patterns(<<"doc">>))>>))>>,
     <<Entry("tracks", Obj(<<Entry("docs", Patterns(<<"Doc">>)),
                             Entry("7", Patterns(<<"bug">>))>>))>>}

OddTracksSections ==
    {<<Entry("tracks", Obj(<<Entry("bug", Str("bug")),
                             Entry("docs", Patterns(<<"doc">>))>>))>>,
     <<Entry("tracks", Obj(<<Entry("", Patterns(<<"bug">>)),
                             Entry("docs", Patterns(<<"doc">>))>>))>>,
     <<Entry("tracks", Str("bug"))>>}

MilestoneSections ==
    {<<>>,
     <<Entry("milestone_rules", Obj(<<Entry("bug", Str("Bugfix Sprint"))>>))>>,
     <<Entry("milestones",
             Obj(<<Entry("bug", Obj(<<Entry("title", Str("Bugfix Sprint"))>>))>>))>>}

OddMilestoneSections ==
    {<<Entry("milestone_rules", Obj(<<Entry("bug", Num(5)),
                                      Entry("docs", Str("Docs"))>>))>>,
     <<Entry("milestoneRules", Obj(<<Entry("bug", Str("Bugfix Sprint"))>>))>>,
     <<Entry("milestone-rules", Obj(<<Entry("bug", Str("Bugfix Sprint"))>>))>>}

SelfHealingSections ==
    {<<>>} \cup
    {<<Entry("self_healing", Flags(Bool(e), Bool(t), Bool(m)))>> :
        e \in BOOLEAN, t \in BOOLEAN, m \in BOOLEAN}

OddSelfHealingSections ==
    {<<Entry("self_healing", True)>>,
     <<Entry("self_healing", Obj(<<Entry("enabled", True)>>))>>,
     <<Entry("self_healing", Flags(Str("yes"), True, True))>>,
     <<Entry("self_healing", Flags(True, Str("yes"), True))>>,
     <<Entry("self_healing", Flags(True, True, Num(1)))>>,
     <<Entry("self_healing", Obj(<<Entry("enabled", True),
                                   Entry("fixMissingTrack", True),
                                   Entry("fixMissingMilestone", True)>>))>>,
     <<Entry("selfHealing", Flags(True, True, True))>>,
     <<Entry("self-healing", Flags(True, True, True))>>,
     <<Entry("owner", Str("me")),
       Entry("self-healing", Flags(True, True, True)),
       Entry("self_healing", Flags(False, True, True))>>}

TelemetrySections ==
    {<<>>, <<Entry("telemetry", Obj(<<Entry("enabled", False)>>))>>}

OddTelemetrySections ==
    {<<Entry("telemetry", Obj(<<Entry("enabled", Str("no")),
                                Entry("path", Num(5))>>))>>,
     <<Entry("telemetry", Obj(<<Entry("enabled", True),
                                Entry("path", Str("out"))>>))>>}

\* a document whose sections are all well formed but the one given
DocTracks == <<Entry("tracks", Obj(<<Entry("bug", Patterns(<<"bug">>))>>))>>
DocRules ==
    <<Entry("milestone_rules", Obj(<<Entry("bug", Str("Bugfix Sprint"))>>))>>
DocSelfHealing == <<Entry("self_healing", Flags(True, True, True))>>

\* the configuration documents: no file, a file that does not parse, a
\* document that is no mapping, and mappings of the four sections
Docs ==
    {[kind |-> "missing"], [kind |-> "unparseable"],
     [kind |-> "parsed", v |-> Null], [kind |-> "parsed", v |-> Str("bug")]}
    \cup {[kind |-> "parsed", v |-> Obj(t \o m \o h \o y)] :
             t \in TracksSections, m \in MilestoneSections,
             h \in SelfHealingSections, y \in TelemetrySections}
    \cup {[kind |-> "parsed", v |-> Obj(t \o DocRules \o DocSelfHealing)] :
             t \in OddTracksSections}
    \cup {[kind |-> "parsed", v |-> Obj(DocTracks \o m \o DocSelfHealing)] :
             m \in OddMilestoneSections}
    \cup {[kind |-> "parsed", v |-> Obj(DocTracks \o DocRules \o h)] :
             h \in OddSelfHealingSections}
    \cup {[kind |-> "parsed", v |-> Obj(DocTracks \o DocRules \o DocSelfHealing \o y)] :
             y \in OddTelemetrySections}

\* configurations of the shape issueClassifier.ts and milestoneRules.ts
\* declare: {tracks?, milestones?: track -> {title}}, with selfHealing and
\* telemetry as run() reads them
Rule(title) == Obj(<<Entry("title", Str(title))>>)

OrchConfig(tracks, rules, selfHealing, tel) ==
    Obj(<<Entry("tracks", tracks), Entry("milestones", rules),
          Entry("selfHealing", selfHealing), Entry("telemetry", tel)>>)

SelfHealing(e, t, m) ==
    Obj(<<Entry("enabled", Bool(e)), Entry("fixMissingTrack", Bool(t)),
          Entry("fixMissingMilestone", Bool(m))>>)

OrchTracks ==
    {Undefined,
     Obj(<<Entry("bug", Patterns(<<"bug">>))>>),
     Obj(<<Entry("docs", Patterns(<<"doc">>)), Entry("bug", Patterns(<<"BUG">>))>>)}

OrchRules ==
    {Undefined,
     Obj(<<Entry("bug", Rule("Bugfix Sprint"))>>),
     Obj(<<Entry("bug", Rule("Bugfix Sprint")), Entry("docs", Rule("Docs"))>>)}

OrchConfigs ==
    {OrchConfig(t, m, h, y) :
        t \in OrchTracks, m \in OrchRules,
        h \in {Undefined} \cup {SelfHealing(e, ft, fm) :
                                   e \in BOOLEAN, ft \in BOOLEAN, fm \in BOOLEAN},
        y \in {Undefined, Obj(<<Entry("enabled", False)>>)}}

\* configurations of two runs that both repair
RaceConfigs ==
    {OrchConfig(Obj(<<Entry("bug", Patterns(<<"bug">>))>>),
                Obj(<<Entry("bug", Rule("Bugfix Sprint"))>>),
                SelfHealing(TRUE, ft, TRUE), Undefined) : ft \in BOOLEAN}

LabelUniverse == {"Bug", "docs"}
\* the labels an issue may carry: those, and a track label applied before
IssueLabelUniverse == LabelUniverse \cup {"track:bug"}
TitleUniverse == {"Bugfix Sprint", "Docs"}
IssueNumbers == {1, 2}

\* the issue of an event payload
Issue(number, labels, milestone) ==
    Obj(<<Entry("number", Num(number)),
          Entry("labels", Arr([i \in 1..Len(labels) |->
                                  Obj(<<Entry("name", Str(labels[i]))>>)])),
          Entry("milestone", milestone)>>)

IssueMilestones == {Null, Rule("Bugfix Sprint")}

Issues(numbers) ==
    {Issue(n, ls, m) : n \in numbers,
                       ls \in SeqsUpTo(IssueLabelUniverse, MaxLabels),
                       m \in IssueMilestones}

\* the open milestones of the repository: distinct titles, numbered from 1
OpenMilestoneStores ==
    {[i \in 1..Len(ts) |-> [number |-> i, title |-> ts[i]]] :
        ts \in {x \in SeqsUpTo(TitleUniverse, MaxOpenMilestones) :
                   \A i, j \in 1..Len(x) : i # j => x[i] # x[j]}}

-----------------------------------------------------------------------------
(* The runs *)

NoClassification ==
    [track |-> Undefined, trackLabelToApply |-> Undefined,
     violations |-> <<>>, actions |-> <<>>]

NewRun(pc0, cfg) ==
    [pc |-> pc0, config |-> cfg, classification |-> NoClassification,
     finalMilestoneTitle |-> Undefined, desiredMilestoneTitle |-> Undefined,
     milestoneNumber |-> Undefined, calls |-> <<>>, telemetry |-> <<>>,
     status |-> "running", result |-> Undefined, error |-> ""]

InitRemote ==
    /\ labelsAdded = [n \in IssueNumbers |-> {}]
    /\ attached = [n \in IssueNumbers |-> Null]

NoFn == [fn |-> "none"]

\* one invocation of the action on the repository's configuration file
Init ==
    /\ doc \in Docs
    /\ envTelemetry \in BOOLEAN
    /\ event \in [Runs -> {Undefined} \cup Issues({1})]
    /\ event[2] = Undefined
    /\ run = [r \in Runs |-> NewRun(IF r = 1 THEN "start" ELSE "off", Undefined)]
    /\ milestones \in OpenMilestoneStores
    /\ InitRemote
    /\ fnIn = NoFn /\ fnOut = NoFn

\* the orchestration of run() given a configuration: one run on any
\* configuration (of the declared shape, or as loadConfig returns it), or two
\* concurrent runs that both repair
InitOrch ==
    /\ doc = [kind |-> "missing"]
    /\ milestones \in OpenMilestoneStores
    /\ InitRemote
    /\ fnIn = NoFn /\ fnOut = NoFn
    /\ \/ /\ envTelemetry \in BOOLEAN
          /\ event \in [Runs -> {Undefined} \cup Issues({1})]
          /\ event[2] = Undefined
          /\ \E cfg \in OrchConfigs \cup {loadConfig(d) : d \in Docs} :
                run = [r \in Runs |->
                          NewRun(IF r = 1 THEN "loaded" ELSE "off", cfg)]
       \/ /\ envTelemetry = TRUE
          /\ event \in [Runs -> {i \in Issues(IssueNumbers) :
                                    Get(i, "milestone") = Null}]
          /\ Get(event[1], "number") = Num(1)
          /\ \E cfg \in RaceConfigs :
                run = [r \in Runs |-> NewRun("loaded", cfg)]

Fresh(ms) ==
    1 + Len(ms)

\* run() starts: loadConfig, then on to the first await
Start(r) ==
    /\ run[r].pc = "start"
    /\ \E w \in WriteOutcomes :
          run' = [run EXCEPT ![r] =
                     RunFrom(run[r], loadConfig(doc), event[r], envTelemetry, w)]
    /\ UNCHANGED <<doc, envTelemetry, event, milestones, labelsAdded, attached,
                   fnIn, fnOut>>

\* run() from its line after loadConfig, on the configuration given
StartLoaded(r) ==
    /\ run[r].pc = "loaded"
    /\ \E w \in WriteOutcomes :
          run' = [run EXCEPT ![r] =
                     RunFrom(run[r], run[r].config, event[r], envTelemetry, w)]
    /\ UNCHANGED <<doc, envTelemetry, event, milestones, labelsAdded, attached,
                   fnIn, fnOut>>

AddLabelsReturn(r) ==
    /\ run[r].pc = "addLabels"
    /\ labelsAdded' =
          [labelsAdded EXCEPT ![Get(event[r], "number").n] =
              @ \cup {run[r].classification.trackLabelToApply.s}]
    /\ \E w \in WriteOutcomes :
          run' = [run EXCEPT ![r] =
                     AfterAddLabels(run[r], event[r], envTelemetry, w)]
    /\ UNCHANGED <<doc, envTelemetry, event, milestones, attached, fnIn, fnOut>>

AddLabelsThrow(r) ==
    /\ run[r].pc = "addLabels"
    /\ run' = [run EXCEPT ![r] = Caught(run[r], addLabelsError)]
    /\ UNCHANGED <<doc, envTelemetry, event, milestones, labelsAdded, attached,
                   fnIn, fnOut>>

ListMilestonesReturn(r) ==
    /\ run[r].pc = "listMilestones"
    /\ run' = [run EXCEPT ![r] = AfterListMilestones(run[r], event[r], milestones)]
    /\ UNCHANGED <<doc, envTelemetry, event, milestones, labelsAdded, attached,
                   fnIn, fnOut>>

ListMilestonesThrow(r) ==
    /\ run[r].pc = "listMilestones"
    /\ run' = [run EXCEPT ![r] = Caught(run[r], githubApiError)]
    /\ UNCHANGED <<doc, envTelemetry, event, milestones, labelsAdded, attached,
                   fnIn, fnOut>>

\* the platform creates the milestone unless an open one has the title
CreateMilestoneReturn(r) ==
    /\ run[r].pc = "createMilestone"
    /\ \A i \in 1..Len(milestones) :
          milestones[i].title # run[r].desiredMilestoneTitle.s
    /\ milestones' = Append(milestones,
                            [number |-> Fresh(milestones),
                             title |-> run[r].desiredMilestoneTitle.s])
    /\ run' = [run EXCEPT ![r] =
                  AfterCreateMilestone(run[r], event[r], Fresh(milestones))]
    /\ UNCHANGED <<doc, envTelemetry, event, labelsAdded, attached, fnIn, fnOut>>

CreateMilestoneThrow(r) ==
    /\ run[r].pc = "createMilestone"
    /\ run' = [run EXCEPT ![r] = Caught(run[r], githubApiError)]
    /\ UNCHANGED <<doc, envTelemetry, event, milestones, labelsAdded, attached,
                   fnIn, fnOut>>

UpdateReturn(r) ==
    /\ run[r].pc = "update"
    /\ attached' = [attached EXCEPT ![Get(event[r], "number").n] =
                       run[r].milestoneNumber]
    /\ \E w \in WriteOutcomes :
          run' = [run EXCEPT ![r] = AfterAttach(run[r], event[r], envTelemetry, w)]
    /\ UNCHANGED <<doc, envTelemetry, event, milestones, labelsAdded, fnIn, fnOut>>

UpdateThrow(r) ==
    /\ run[r].pc = "update"
    /\ run' = [run EXCEPT ![r] = Caught(run[r], githubApiError)]
    /\ UNCHANGED <<doc, envTelemetry, event, milestones, labelsAdded, attached,
                   fnIn, fnOut>>

\* what a run loaded from the configuration file can come to
Next ==
    \E r \in Runs : Start(r) \/ AddLabelsReturn(r) \/ AddLabelsThrow(r)

Spec == Init /\ [][Next]_vars

NextOrch ==
    \E r \in Runs :
        \/ StartLoaded(r)
        \/ AddLabelsReturn(r) \/ AddLabelsThrow(r)
        \/ ListMilestonesReturn(r) \/ ListMilestonesThrow(r)
        \/ CreateMilestoneReturn(r) \/ CreateMilestoneThrow(r)
        \/ UpdateReturn(r) \/ UpdateThrow(r)

SpecOrch == InitOrch /\ [][NextOrch]_vars

\* every step of run(): with the configuration loadConfig returns, the
\* milestone calls are never reached (NoMilestoneCall)
NextAll ==
    \E r \in Runs :
        \/ Start(r)
        \/ AddLabelsReturn(r) \/ AddLabelsThrow(r)
        \/ ListMilestonesReturn(r) \/ ListMilestonesThrow(r)
        \/ CreateMilestoneReturn(r) \/ CreateMilestoneThrow(r)
        \/ UpdateReturn(r) \/ UpdateThrow(r)

SpecAll == Init /\ [][NextAll]_vars

NoMilestoneCall ==
    \A r \in Runs :
        run[r].pc \notin {"listMilestones", "createMilestone", "update"}

-----------------------------------------------------------------------------
(* The classifier and the milestone resolver applied on their own *)

TrackNames == {"bug", "docs", "7", "3", ""}
PatternLists == {<<>>, <<"BUG">>, <<"doc">>, <<"ug", "Doc">>}

\* tracks mappings: the entries in the order the configuration declares them
TrackMaps ==
    {Obj([i \in 1..Len(ns) |-> Entry(ns[i], Patterns(ps[i]))]) :
        <<ns, ps>> \in UNION {
            {ns \in [1..k -> TrackNames] :
                \A i, j \in 1..k : i # j => ns[i] # ns[j]}
            \X [1..k -> PatternLists] : k \in 0..MaxTracks}}

ClassifyInputs ==
    {[fn |-> "classifyIssue", config |-> c, labels |-> ls] :
        c \in {EmptyObject, Obj(<<Entry("tracks", Undefined)>>)}
              \cup {Obj(<<Entry("tracks", t)>>) : t \in TrackMaps},
        ls \in SeqsUpTo(LabelUniverse, MaxClassifyLabels)}

ResolveInputs ==
    {[fn |-> "inferMilestoneTitle", doc |-> d, track |-> t] :
        d \in Docs, t \in {Null} \cup {Str(n) : n \in TrackNames}}

InitPure ==
    /\ doc = [kind |-> "missing"]
    /\ envTelemetry = TRUE
    /\ event = [r \in Runs |-> Undefined]
    /\ run = [r \in Runs |-> NewRun("off", Undefined)]
    /\ milestones = <<>>
    /\ InitRemote
    /\ fnIn \in ClassifyInputs \cup ResolveInputs
    /\ fnOut = NoFn

\* classifyIssue(config, labels)
Classify ==
    /\ fnIn.fn = "classifyIssue" /\ fnOut = NoFn
    /\ fnOut' = [fn |-> "classifyIssue",
                 value |-> classifyIssue(fnIn.config, fnIn.labels)]
    /\ UNCHANGED <<doc, envTelemetry, event, run, milestones, labelsAdded,
                   attached, fnIn>>

\* inferMilestoneTitle(loadConfig(path), track)
Resolve ==
    /\ fnIn.fn = "inferMilestoneTitle" /\ fnOut = NoFn
    /\ fnOut' = [fn |-> "inferMilestoneTitle",
                 value |-> inferMilestoneTitle(loadConfig(fnIn.doc), fnIn.track)]
    /\ UNCHANGED <<doc, envTelemetry, event, run, milestones, labelsAdded,
                   attached, fnIn>>

NextPure == Classify \/ Resolve

SpecPure == InitPure /\ [][NextPure]_vars

-----------------------------------------------------------------------------
(* An issue processed, and processed again as the first run left it *)

RepeatTracks ==
    {Obj(<<Entry("bug", Patterns(<<"bug">>))>>),
     Obj(<<Entry("bug", Patterns(<<"bug">>)),
           Entry("debug", Patterns(<<"trace">>))>>)}

RepeatRules ==
    Obj(<<Entry("bug", Rule("Bugfix Sprint")), Entry("debug", Rule("Docs"))>>)

RepeatConfigs ==
    {OrchConfig(t, RepeatRules, SelfHealing(e, ft, fm), y) :
        t \in RepeatTracks, e \in BOOLEAN, ft \in BOOLEAN, fm \in BOOLEAN,
        y \in {Undefined, Obj(<<Entry("enabled", False)>>)}}

RepeatLabelUniverse == {"Bug", "trace"}

RepeatIssues ==
    {Issue(1, ls, m) : ls \in SeqsUpTo(RepeatLabelUniverse, MaxLabels),
                       m \in IssueMilestones}

InitRepeat ==
    /\ doc = [kind |-> "missing"]
    /\ milestones \in OpenMilestoneStores
    /\ InitRemote
    /\ fnIn = NoFn /\ fnOut = NoFn
    /\ envTelemetry \in BOOLEAN
    /\ event \in [Runs -> {Undefined} \cup RepeatIssues]
    /\ event[2] = Undefined
    /\ \E cfg \in RepeatConfigs :
          run = [r \in Runs |-> NewRun(IF r = 1 THEN "loaded" ELSE "off", cfg)]

RECURSIVE SeqOf(_)
\* the elements of a set of labels, one after the other
SeqOf(S) ==
    IF S = {} THEN <<>>
    ELSE LET x == CHOOSE y \in S : TRUE IN <<x>> \o SeqOf(S \ {x})

\* the issue as the repository holds it after the calls made on it: the
\* labels added that it did not carry, the milestone attached
Reloaded(issue) ==
    LET n == Get(issue, "number").n
        had == LabelNames(issue)
        new == SeqOf(labelsAdded[n] \ {had[i] : i \in 1..Len(had)})
    IN  Issue(n, had \o new,
              IF attached[n] = Null THEN Get(issue, "milestone")
              ELSE Rule(milestones[attached[n].n].title))

\* the issue of a successful first run is processed again, same configuration
Reprocess ==
    /\ run[1].pc = "done" /\ run[1].status = "success"
    /\ run[2].pc = "off"
    /\ event' = [event EXCEPT ![2] = Reloaded(event[1])]
    /\ run' = [run EXCEPT ![2] = NewRun("loaded", run[1].config)]
    /\ UNCHANGED <<doc, envTelemetry, milestones, labelsAdded, attached,
                   fnIn, fnOut>>

NextRepeat == NextOrch \/ Reprocess

SpecRepeat == InitRepeat /\ [][NextRepeat]_vars

-----------------------------------------------------------------------------
(* The configuration loader applied on its own *)

\* the keys loadConfig warns about as unknown
loadConfigWarnings(d) ==
    IF d.kind # "parsed" \/ ~Truthy(d.v) \/ TypeOf(d.v) # "object" THEN {}
    ELSE warnUnknownKeys(NormalizeKeys(ObjectEntries(d.v)))

InitConfig ==
    /\ doc \in Docs
    /\ envTelemetry = TRUE
    /\ event = [r \in Runs |-> Undefined]
    /\ run = [r \in Runs |-> NewRun("off", Undefined)]
    /\ milestones = <<>>
    /\ InitRemote
    /\ fnIn = [fn |-> "loadConfig"]
    /\ fnOut = NoFn

\* loadConfig(path)
Load ==
    /\ fnIn.fn = "loadConfig" /\ fnOut = NoFn
    /\ fnOut' = [fn |-> "loadConfig", value |-> loadConfig(doc),
                 warned |-> loadConfigWarnings(doc)]
    /\ UNCHANGED <<doc, envTelemetry, event, run, milestones, labelsAdded,
                   attached, fnIn>>

NextConfig == Load

SpecConfig == InitConfig /\ [][NextConfig]_vars

-----------------------------------------------------------------------------
(* Properties *)

Finished(r) == run[r].pc = "done"

\* issue.milestone?.title ?? null of the event
CurrentMilestone(r) == Coalesce(OptGet(Get(event[r], "milestone"), "title"), Null)

HasRejected(r) ==
    \E i \in 1..Len(run[r].calls) : run[r].calls[i].state = "rejected"

\* C1: every finished run that has an issue and telemetry enabled, a run in
\* which a remote call failed included, has made its telemetry write, with the
\* actions and final milestone title accumulated and the classification's
\* violations.
C1_TelemetryAlwaysWritten ==
    \A r \in Runs :
        (Finished(r) /\ Truthy(event[r])
         /\ TelemetryEnabled(run[r].config, envTelemetry))
        => /\ Len(run[r].telemetry) = 1
           /\ run[r].telemetry[1].payload.actions = run[r].classification.actions
           /\ run[r].telemetry[1].payload.issue.milestone
                  = run[r].finalMilestoneTitle
           /\ run[r].telemetry[1].payload.classification.violations
                  = run[r].classification.violations

\* C1, the runs the code does satisfy it on: those no remote call failed in
C1_TelemetryWrittenOnSuccess ==
    \A r \in Runs :
        (Finished(r) /\ Truthy(event[r]) /\ ~HasRejected(r)
         /\ TelemetryEnabled(run[r].config, envTelemetry))
        => /\ Len(run[r].telemetry) = 1
           /\ run[r].telemetry[1].payload.actions = run[r].classification.actions

SelfHealingEnabled(r) ==
    Truthy(Get(SelfHealingOf(run[r].config), "enabled"))

Started(r) == run[r].pc \notin {"off", "start", "loaded"}

\* C2: with selfHealing.enabled not true, whatever the two sub-flags, a run on
\* an issue issues no remote call, leaves the actions as the classifier made
\* them (empty) and reports the issue's current milestone title.
C2_DisabledDoesNothing ==
    \A r \in Runs :
        (Started(r) /\ Truthy(event[r]) /\ ~SelfHealingEnabled(r))
        => /\ run[r].calls = <<>>
           /\ run[r].classification.actions = <<>>
           /\ run[r].status = "success"
           /\ run[r].result.actions = <<>>
           /\ run[r].result.milestone = CurrentMilestone(r)

\* C2's case: both sub-flags set, a track matched and a rule whose title is
\* not the issue's, and still nothing done
C2_Witness ==
    \E r \in Runs :
        /\ Finished(r) /\ Truthy(event[r]) /\ ~SelfHealingEnabled(r)
        /\ Get(SelfHealingOf(run[r].config), "fixMissingTrack") = True
        /\ Get(SelfHealingOf(run[r].config), "fixMissingMilestone") = True
        /\ Truthy(run[r].classification.trackLabelToApply)
        /\ Truthy(inferMilestoneTitle(run[r].config, run[r].classification.track))
        /\ inferMilestoneTitle(run[r].config, run[r].classification.track)
               # CurrentMilestone(r)
        /\ run[r].calls = <<>>

\* the actions the calls of run r that resolved before its i-th call recorded
RecordedBefore(r, i) ==
    IF \E j \in 1..(i - 1) : run[r].calls[j].op = "addLabels"
    THEN <<"apply-track-label:" \o run[r].calls[1].arg.s>>
    ELSE <<>>

\* C3: a rejected remote call is the last call its run issues, the run ends
\* failed with an API-severity error, and the actions recorded before the
\* failure are still recorded.
C3_FailureAborts ==
    \A r \in Runs : \A i \in 1..Len(run[r].calls) :
        run[r].calls[i].state = "rejected"
        => /\ i = Len(run[r].calls)
           /\ run[r].pc = "done"
           /\ run[r].status = "failed"
           /\ run[r].error = "github-api"
           /\ run[r].classification.actions = RecordedBefore(r, i)

\* C3's case: the attach is rejected after the label was applied and the
\* milestone looked up and created
C3_Witness ==
    \E r \in Runs :
        /\ [i \in 1..Len(run[r].calls) |-> run[r].calls[i].op]
               = <<"addLabels", "listMilestones", "createMilestone", "update">>
        /\ run[r].calls[4].state = "rejected"
        /\ Len(run[r].classification.actions) = 1

\* the milestone rules of the normalized configuration: track -> title
RuleTitle(cfg, track) ==
    IF Nullish(track) THEN Undefined
    ELSE Get(Get(cfg, "milestone_rules"), track.s)

\* C4: with the three self-healing flags true in the loaded configuration, the
\* issue's labels matched to track T, a milestone rule T -> M, a current
\* milestone title other than M and no remote call failing, the run ends with
\* track T, actions [apply-track-label:track:T, set-milestone:M], milestone M.
C4_EndToEndRepair ==
    \A r \in Runs :
        LET cfg == loadConfig(doc)
            cls == classifyIssue(cfg, LabelNames(event[r]))
            sh == Get(cfg, "selfHealing")
            M == RuleTitle(cfg, cls.track)
        IN  (/\ Finished(r) /\ Truthy(event[r]) /\ ~HasRejected(r)
             /\ Get(sh, "enabled") = True
             /\ Get(sh, "fixMissingTrack") = True
             /\ Get(sh, "fixMissingMilestone") = True
             /\ cls.track # Null
             /\ TypeOf(M) = "string" /\ M # CurrentMilestone(r))
            => /\ run[r].status = "success"
               /\ run[r].result.track = cls.track
               /\ run[r].result.actions
                      = <<"apply-track-label:track:" \o cls.track.s,
                          "set-milestone:" \o M.s>>
               /\ run[r].result.milestone = M

\* C5: the resolver returns null for a null track and for a track the
\* normalized configuration has no milestone rule for, and otherwise the title
\* the normalized configuration's milestone rules give the track.
C5_ResolverReturnsRule ==
    fnOut.fn = "inferMilestoneTitle"
    => LET M == RuleTitle(loadConfig(fnIn.doc), fnIn.track)
       IN  fnOut.value = IF fnIn.track = Null \/ Nullish(M) THEN Null ELSE M

\* what the resolver does return on every configuration loadConfig yields
C5_ResolverReturnsNull ==
    fnOut.fn = "inferMilestoneTitle" => fnOut.value = Null

\* pattern p is a case-insensitive substring of label l
Matches(p, l) == includes(toLowerCase(CharsOf[l]), toLowerCase(CharsOf[p]))

\* the entries of a tracks mapping, in declaration order, that have a pattern
\* matching a label
MatchingTracks(tracks, labels) ==
    {i \in 1..Len(tracks.e) :
        \E j \in 1..Len(tracks.e[i].v.a) : \E l \in 1..Len(labels) :
            Matches(tracks.e[i].v.a[j].s, labels[l])}

\* C6: the track returned is the first declared track with a pattern that is
\* a case-insensitive substring of a label; then trackLabelToApply is
\* "track:<name>" and there is no violation.
C6_FirstDeclaredMatchWins ==
    fnOut.fn = "classifyIssue"
    => LET tracks == Coalesce(Get(fnIn.config, "tracks"), EmptyObject)
           hits == MatchingTracks(tracks, fnIn.labels)
           first == CHOOSE i \in hits : \A j \in hits : i <= j
       IN  hits # {}
           => /\ fnOut.value.track = Str(tracks.e[first].k)
              /\ fnOut.value.trackLabelToApply = Str("track:" \o tracks.e[first].k)
              /\ fnOut.value.violations = <<>>

\* C7: with the tracks mapping empty or absent, the classifier returns track
\* null, trackLabelToApply null and the violation "no-track-matched".
C7_NoTracksNoMatch ==
    (/\ fnOut.fn = "classifyIssue"
     /\ \/ Nullish(Get(fnIn.config, "tracks"))
        \/ Get(fnIn.config, "tracks").e = <<>>)
    => /\ fnOut.value.track = Null
       /\ fnOut.value.trackLabelToApply = Null
       /\ \E i \in 1..Len(fnOut.value.violations) :
             fnOut.value.violations[i] = "no-track-matched"

\* C7's case: classified, with an empty tracks mapping and labels to match
C7_Witness ==
    /\ fnOut.fn = "classifyIssue"
    /\ Get(fnIn.config, "tracks") = EmptyObject
    /\ Len(fnIn.labels) > 0

\* the listed milestones with the title
Titled(data, title) == {i \in 1..Len(data) : data[i].title = title}

Ops(r) == [i \in 1..Len(run[r].calls) |-> run[r].calls[i].op]

\* C8: when the list the lookup returned holds a milestone with exactly the
\* desired title, no createMilestone call is issued: the call after the lookup
\* is the attach, with the number of that milestone, which ensureMilestone
\* returned.
C8_NoCreateWhenListed ==
    \A r \in Runs : \A i \in 1..Len(run[r].calls) :
        LET c == run[r].calls[i]
        IN  (/\ c.op = "listMilestones" /\ c.state = "ok"
             /\ Titled(c.res.a, c.arg.s) # {})
            => /\ \A j \in 1..Len(run[r].calls) :
                     run[r].calls[j].op # "createMilestone"
               /\ i < Len(run[r].calls)
               /\ run[r].calls[i + 1].op = "update"
               /\ \E m \in Titled(c.res.a, c.arg.s) :
                     /\ run[r].milestoneNumber = Num(c.res.a[m].number)
                     /\ run[r].calls[i + 1].arg.milestone = Num(c.res.a[m].number)

\* C8's case: the lookup returned the title and the attach went through
C8_Witness ==
    \E r \in Runs : \E i \in 1..Len(run[r].calls) :
        /\ run[r].calls[i].op = "listMilestones"
        /\ run[r].calls[i].state = "ok"
        /\ Titled(run[r].calls[i].res.a, run[r].calls[i].arg.s) # {}
        /\ run[r].status = "success"

\* C9: the milestone calls of a run are lookup, then create only after a
\* lookup that found no such title, then attach only after the lookup or the
\* create resolved, with the number found or created; only the last call
\* issued can be outstanding.
C9_StrictSequence ==
    \A r \in Runs : \A i \in 1..Len(run[r].calls) :
        LET c == run[r].calls[i]
            p == run[r].calls[i - 1]
        IN  /\ c.state = "pending" => i = Len(run[r].calls)
            /\ c.op = "listMilestones"
                   => \A j \in 1..(i - 1) :
                         run[r].calls[j].op = "addLabels"
                         /\ run[r].calls[j].state = "ok"
            /\ c.op = "createMilestone"
                   => /\ i > 1 /\ p.op = "listMilestones" /\ p.state = "ok"
                      /\ Titled(p.res.a, c.arg.s) = {}
                      /\ c.arg = p.arg
            /\ c.op = "update"
                   => /\ i > 1 /\ p.state = "ok"
                      /\ \/ /\ p.op = "listMilestones"
                            /\ \E m \in Titled(p.res.a, p.arg.s) :
                                  c.arg.milestone = Num(p.res.a[m].number)
                         \/ /\ p.op = "createMilestone"
                            /\ c.arg.milestone = p.res
                      /\ i = Len(run[r].calls)

\* C9's case: a run that looked up, created and attached
C9_Witness ==
    \E r \in Runs :
        /\ Ops(r) = <<"addLabels", "listMilestones", "createMilestone", "update">>
        /\ run[r].status = "success"

\* C10: nothing but a run's own lookup decides its create: a lookup that
\* returned no milestone with the title is followed by that run's
\* createMilestone call for the title, whatever the other run has created or
\* has in flight, so two runs can both create the same title.
C10_CreateFollowsOwnLookup ==
    \A r \in Runs : \A i \in 1..Len(run[r].calls) :
        LET c == run[r].calls[i]
        IN  (/\ c.op = "listMilestones" /\ c.state = "ok"
             /\ Titled(c.res.a, c.arg.s) = {})
            => /\ i < Len(run[r].calls)
               /\ run[r].calls[i + 1].op = "createMilestone"
               /\ run[r].calls[i + 1].arg = c.arg

\* C10's case: both lookups resolved before either create, and both runs have
\* their createMilestone for the same title outstanding
C10_Witness ==
    /\ run[1].pc = "createMilestone" /\ run[2].pc = "createMilestone"
    /\ run[1].calls[Len(run[1].calls)].state = "pending"
    /\ run[2].calls[Len(run[2].calls)].state = "pending"
    /\ run[1].calls[Len(run[1].calls)].arg = run[2].calls[Len(run[2].calls)].arg
    /\ \A i \in 1..Len(milestones) :
          Str(milestones[i].title) # run[1].desiredMilestoneTitle

DefaultSelfHealing == SelfHealing(FALSE, FALSE, FALSE)
DefaultTelemetry ==
    Obj(<<Entry("enabled", True), Entry("path", Str("telemetry"))>>)

\* a value that is a mapping, possibly empty
IsMapping(v) == v.t = "object"

\* the document gives the loader nothing to read: no file, a file that does
\* not parse, an empty or null document, a document that is no mapping
NothingToRead(d) ==
    d.kind # "parsed" \/ ~Truthy(d.v) \/ TypeOf(d.v) # "object"
    \/ d.v = EmptyObject

\* C12: loadConfig returns a fully-defaulted configuration for every input:
\* tracks and the milestone rules are mappings, selfHealing holds three
\* booleans, telemetry a boolean and a path, and a document that gives nothing
\* to read yields selfHealing {false, false, false} and telemetry
\* {true, "telemetry"}.
C12_FullyDefaulted ==
    fnOut.fn = "loadConfig"
    => LET cfg == fnOut.value
           sh == Get(cfg, "selfHealing")
           tel == Get(cfg, "telemetry")
       IN  /\ IsMapping(Get(cfg, "tracks"))
           /\ IsMapping(Get(cfg, "milestone_rules"))
           /\ IsMapping(sh)
           /\ \A k \in {"enabled", "fixMissingTrack", "fixMissingMilestone"} :
                 TypeOf(Get(sh, k)) = "boolean"
           /\ IsMapping(tel)
           /\ TypeOf(Get(tel, "enabled")) = "boolean"
           /\ TypeOf(Get(tel, "path")) = "string"
           /\ NothingToRead(doc)
                  => sh = DefaultSelfHealing /\ tel = DefaultTelemetry

\* C12, the part the code does satisfy: the loader returns for every input,
\* and the telemetry section of a document that is a mapping is complete
C12_TelemetryDefaulted ==
    (fnOut.fn = "loadConfig" /\ doc.kind = "parsed" /\ Truthy(doc.v)
     /\ TypeOf(doc.v) = "object")
    => LET tel == Get(fnOut.value, "telemetry")
       IN  /\ TypeOf(Get(tel, "enabled")) = "boolean"
           /\ TypeOf(Get(tel, "path")) = "string"

\* the self-healing section of the document as the loader reads it
SelfHealingSection(d) == Get(NormalizeKeys(ObjectEntries(d.v)), "self_healing")

\* the flag the specification gives for a supplied value: the value when it
\* is a boolean, false when it is absent or anything else
FlagOf(v) == IF TypeOf(v) = "boolean" THEN v ELSE False

\* C13: each flag of the normalized selfHealing section is a boolean: the
\* value the document supplies when that is a boolean, false when the flag or
\* the section is absent or the value is no boolean, each flag on its own.
C13_FlagsAreBooleans ==
    (fnOut.fn = "loadConfig" /\ doc.kind = "parsed" /\ Truthy(doc.v)
     /\ TypeOf(doc.v) = "object")
    => LET sec == SelfHealingSection(doc)
           sh == Get(fnOut.value, "selfHealing")
       IN  /\ Get(sh, "enabled") = FlagOf(OptGet(sec, "enabled"))
           /\ Get(sh, "fixMissingTrack") = FlagOf(OptGet(sec, "fix_missing_track"))
           /\ Get(sh, "fixMissingMilestone")
                  = FlagOf(OptGet(sec, "fix_missing_milestone"))

\* C13, the part the code does satisfy: a section that is a mapping gets a
\* boolean enabled, and every flag supplied as a boolean is kept
C13_SuppliedBooleansKept ==
    (fnOut.fn = "loadConfig" /\ doc.kind = "parsed" /\ Truthy(doc.v)
     /\ TypeOf(doc.v) = "object" /\ SelfHealingSection(doc).t = "object")
    => LET sec == SelfHealingSection(doc)
           sh == Get(fnOut.value, "selfHealing")
       IN  /\ Get(sh, "enabled") = FlagOf(Get(sec, "enabled"))
           /\ TypeOf(Get(sec, "fix_missing_track")) = "boolean"
                  => Get(sh, "fixMissingTrack") = Get(sec, "fix_missing_track")
           /\ TypeOf(Get(sec, "fix_missing_milestone")) = "boolean"
                  => Get(sh, "fixMissingMilestone")
                         = Get(sec, "fix_missing_milestone")
           /\ Nullish(Get(sec, "fix_missing_track"))
                  => Get(sh, "fixMissingTrack") = False

\* the spellings of the two top-level keys that have more than one
SelfHealingSpellings == {"self_healing", "self-healing", "selfHealing"}
MilestoneRulesSpellings == {"milestone_rules", "milestoneRules"}

TopLevelKeys(d) == {d.v.e[i].k : i \in 1..Len(d.v.e)}

\* the document with its top-level key a written as b
Respelled(d, a, b) ==
    [d EXCEPT !.v = Obj([i \in 1..Len(d.v.e) |->
                            IF d.v.e[i].k = a THEN Entry(b, d.v.e[i].v)
                            ELSE d.v.e[i]])]

\* the documents that differ from d only in the spelling of one key of S
Respellings(d, S) ==
    {Respelled(d, a, b) :
        <<a, b>> \in {p \in S \X S : TopLevelKeys(d) \cap S = {p[1]}}}

\* C14: a document that differs from the one loaded only in the spelling of
\* its self-healing key (self-healing, selfHealing, self_healing) or of its
\* milestone rules key (milestoneRules, milestone_rules) loads to the same
\* configuration, and none of these spellings is warned about as unknown.
C14_SpellingsEquivalent ==
    (fnOut.fn = "loadConfig" /\ doc.kind = "parsed" /\ Truthy(doc.v)
     /\ TypeOf(doc.v) = "object")
    => /\ \A d \in Respellings(doc, SelfHealingSpellings)
                   \cup Respellings(doc, MilestoneRulesSpellings) :
             loadConfig(d) = fnOut.value
       /\ fnOut.warned \cap (SelfHealingSpellings \cup MilestoneRulesSpellings)
              = {}

\* C14, the part the code does satisfy: the hyphen and the underscore
\* spellings are equivalent and neither is warned about
C14_HyphenIsUnderscore ==
    (fnOut.fn = "loadConfig" /\ doc.kind = "parsed" /\ Truthy(doc.v)
     /\ TypeOf(doc.v) = "object")
    => /\ \A d \in Respellings(doc, {"self_healing", "self-healing"})
                   \cup Respellings(doc, {"milestone_rules", "milestone-rules"}) :
             loadConfig(d) = fnOut.value
       /\ fnOut.warned \cap {"self_healing", "self-healing", "milestone_rules",
                             "milestone-rules"} = {}

\* the three self-healing flags of the run's configuration are set
FullyEnabled(r) ==
    LET sh == SelfHealingOf(run[r].config)
    IN  /\ Truthy(Get(sh, "enabled"))
        /\ Truthy(Get(sh, "fixMissingTrack"))
        /\ Truthy(Get(sh, "fixMissingMilestone"))

\* the classification of the event's issue under the run's configuration
ClassificationOf(r) == classifyIssue(run[r].config, LabelNames(event[r]))

\* the title the resolver gives for the matched track of the event's issue
DesiredTitle(r) == inferMilestoneTitle(run[r].config, ClassificationOf(r).track)

\* the issue of the event carries label l
Carries(r, l) ==
    \E i \in 1..Len(LabelNames(event[r])) : LabelNames(event[r])[i] = l

\* C15: with the three flags set and the desired title of the matched track
\* equal to the issue's current milestone title, the run's only remote call is
\* addLabels with the track label, whether or not the issue carries it, and a
\* run no call failed in ends with the track-label action as its only action
\* and the milestone unchanged.
C15_SameMilestoneOnlyLabel ==
    \A r \in Runs :
        (/\ Started(r) /\ Truthy(event[r]) /\ FullyEnabled(r)
         /\ ClassificationOf(r).track # Null
         /\ Truthy(DesiredTitle(r))
         /\ DesiredTitle(r) = CurrentMilestone(r))
        => /\ Ops(r) = <<"addLabels">>
           /\ run[r].calls[1].arg = ClassificationOf(r).trackLabelToApply
           /\ \A i \in 1..Len(run[r].classification.actions) :
                 run[r].classification.actions[i]
                     = "apply-track-label:" \o ClassificationOf(r).trackLabelToApply.s
           /\ (Finished(r) /\ ~HasRejected(r))
                  => /\ Len(run[r].classification.actions) = 1
                     /\ run[r].result.actions = run[r].classification.actions
                     /\ run[r].result.milestone = CurrentMilestone(r)

\* C15's case: the issue has the desired milestone and already carries the
\* track label, and the run applied the label again and nothing else
C15_Witness ==
    \E r \in Runs :
        /\ Finished(r) /\ Truthy(event[r]) /\ FullyEnabled(r)
        /\ Truthy(DesiredTitle(r)) /\ DesiredTitle(r) = CurrentMilestone(r)
        /\ Carries(r, ClassificationOf(r).trackLabelToApply.s)
        /\ run[r].status = "success"
        /\ Ops(r) = <<"addLabels">>

\* the action a run records for the track label, and for the milestone
TrackAction(s) == "apply-track-label:" \o s.classification.trackLabelToApply.s
MilestoneAction(s) == "set-milestone:" \o s.desiredMilestoneTitle.s

\* one step of run r keeps C16
ActionsStep(r) ==
    LET a == run[r].classification.actions
        b == run[r].classification.actions'
        n == Len(run[r].calls)
    IN  /\ Len(b) \in {Len(a), Len(a) + 1}
        /\ SubSeq(b, 1, Len(a)) = a
        /\ Len(b) = Len(a) + 1
               => /\ n > 0
                  /\ run[r].calls[n].state = "pending"
                  /\ run[r].calls'[n].state = "ok"
                  /\ \/ /\ run[r].calls[n].op = "addLabels"
                        /\ b[Len(b)] = TrackAction(run[r])
                        /\ a = <<>>
                     \/ /\ run[r].calls[n].op = "update"
                        /\ b[Len(b)] = MilestoneAction(run[r])
                        /\ a \in {<<>>, <<TrackAction(run[r])>>}
        /\ run[r].result' # Undefined => run[r].result'.actions = b
        /\ \A i \in 1..Len(run[r].telemetry') :
              /\ run[r].telemetry'[i].payload.actions = b
              /\ run[r].telemetry'[i].payload.classification.actions = b

\* C16: the actions of a run only grow, by appending: the track-label action
\* in the step in which addLabels succeeds, the set-milestone action in the
\* step in which the attach succeeds and after the track-label action if
\* there is one; the telemetry payload and the result carry the same list.
C16_ActionsInOrder == [][\A r \in Runs : ActionsStep(r)]_vars

\* C16's case: both actions recorded, and written and reported in that order
C16_Witness ==
    \E r \in Runs :
        /\ Finished(r) /\ run[r].status = "success"
        /\ Len(run[r].classification.actions) = 2
        /\ run[r].classification.actions
               = <<TrackAction(run[r]), MilestoneAction(run[r])>>
        /\ Len(run[r].telemetry) = 1
        /\ run[r].telemetry[1].payload.actions = run[r].result.actions
        /\ run[r].result.actions = run[r].classification.actions

\* C17: every finished run on an issue, with telemetry enabled, has made
\* exactly one telemetry write, keyed by the number of its issue.
C17_ExactlyOneWrite ==
    \A r \in Runs :
        (Finished(r) /\ Truthy(event[r])
         /\ TelemetryEnabled(run[r].config, envTelemetry))
        => /\ Len(run[r].telemetry) = 1
           /\ run[r].telemetry[1].number = Get(event[r], "number").n

\* C17, the part the code does satisfy: never more than one write, keyed by
\* the number of the issue, and none for an event without an issue
C17_AtMostOneWrite ==
    \A r \in Runs :
        /\ Len(run[r].telemetry) <= 1
        /\ \A i \in 1..Len(run[r].telemetry) :
              /\ Truthy(event[r])
              /\ run[r].telemetry[i].number = Get(event[r], "number").n

\* run r recorded the set-milestone action for its desired title
RecordedMilestone(r) ==
    /\ Truthy(run[r].desiredMilestoneTitle)
    /\ \E i \in 1..Len(run[r].classification.actions) :
          run[r].classification.actions[i] = MilestoneAction(run[r])

\* C18: a run that ends successful reports the desired title M if it recorded
\* set-milestone:M, which it did after a successful attach, and the issue's
\* original milestone title (or null) if it did not; the payload written
\* carries the milestone the result reports.
C18_ReportedMilestone ==
    \A r \in Runs :
        (Finished(r) /\ run[r].status = "success")
        => /\ RecordedMilestone(r)
                  => /\ run[r].result.milestone = run[r].desiredMilestoneTitle
                     /\ run[r].desiredMilestoneTitle # CurrentMilestone(r)
                     /\ run[r].calls[Len(run[r].calls)].op = "update"
                     /\ run[r].calls[Len(run[r].calls)].state = "ok"
           /\ ~RecordedMilestone(r)
                  => run[r].result.milestone = CurrentMilestone(r)
           /\ \A i \in 1..Len(run[r].telemetry) :
                 run[r].telemetry[i].payload.issue.milestone
                     = run[r].result.milestone

\* C18's case: a milestone set in place of the issue's own, and written
C18_Witness ==
    \E r \in Runs :
        /\ Finished(r) /\ run[r].status = "success"
        /\ RecordedMilestone(r)
        /\ CurrentMilestone(r) # Null
        /\ run[r].result.milestone # CurrentMilestone(r)
        /\ Len(run[r].telemetry) = 1

\* run 2 processes the issue again after a first run that, with the three
\* flags set, matched a track with a milestone rule and succeeded
Reprocessed ==
    /\ Started(2)
    /\ FullyEnabled(1)
    /\ ClassificationOf(1).track # Null
    /\ Truthy(DesiredTitle(1))

C19_SameTrackConverges ==
    (Reprocessed /\ ClassificationOf(2).track = ClassificationOf(1).track)
    => /\ Ops(2) = <<"addLabels">>
       /\ run[2].calls[1].arg = run[1].calls[1].arg
       /\ run[2].desiredMilestoneTitle = Undefined
       /\ (Finished(2) /\ ~HasRejected(2))
              => run[2].classification.actions = <<TrackAction(run[1])>>

====
